---- MODULE Spec2Model ----
(***************************************************************************)
(* A model of CodexManager (src-tauri/src/codex.rs): the node slot, the    *)
(* status and error registers, the network and storage snapshots, the      *)
(* progress registry, and the async methods connect, disconnect,           *)
(* upload_file_with_progress, download_file_with_progress, send_progress   *)
(* and update_network_info, run by concurrently scheduled callers and by   *)
(* the callback tasks that transfers spawn.                                *)
(*                                                                         *)
(* Callers are anonymous: the calls in flight are a bag of frames, each    *)
(* the position and the locals of one call.                                *)
(*                                                                         *)
(* Granularity.  A block `{ let g = lock.await; ...; }` that holds one     *)
(* lock and makes no call while holding it is one atomic step.  Statements *)
(* that touch only locals of the caller (a capability not yet stored, a    *)
(* path check, a send on a channel no callback can reach yet) are part of  *)
(* the step whose shared read or write precedes them: they commute with    *)
(* every step of every other caller.  The write guard of network_info is   *)
(* held across three node queries in update_network_info, so it is state   *)
(* (net_writer).                                                           *)
(***************************************************************************)
EXTENDS Integers, Sequences, FiniteSets, Bags, TLC

\* ---------------------------------------------------------------- bounds
MaxNodes == 2       \* capabilities CodexNode::new can hand out
MaxOps == 2         \* operation ids Uuid::new_v4 can mint
MaxCallbacks == 1   \* on_progress invocations pending or queued at a time
MaxCalls == 2       \* method calls made on the manager in one run
MaxTasks == 3       \* tasks that call get_codex_manager_with_handle
MaxGets == 4        \* calls of get_codex_manager_with_handle in one run

\* ------------------------------------------------------ program constants
DefaultMaxPeers == 50
StorageQuota == 1073741824

Callers == {"a", "b"}        \* the tasks that may be inside a method at once
NodeIds == 1..MaxNodes
OpIds == 1..MaxOps
Tasks == 1..MaxTasks
None == 0                    \* Option::None for a node id / operation id

\* lines 196-202: the locks of the manager's fields
Locks ==
  {"node", "status", "error", "progress_senders", "network_info", "storage_info"}
\* The callers, and the runtime thread that runs the spawned callback tasks.
Threads == Callers \cup {"task"}

CodexConnectionStatus == {"Disconnected", "Connecting", "Connected", "Error"}
OperationStage ==
  {"Initializing", "Uploading", "Downloading", "Verifying", "Completed", "Failed"}
CodexError ==
  {"NodeCreation", "NodeStart", "NodeNotInitialized", "NodeNotStarted", "Upload",
   "Download", "FileNotFound", "InvalidCid", "Io", "Configuration"}

VARIABLES
  node,              \* Mutex<Option<CodexNode>>: None or the id of a capability
  status,            \* RwLock<CodexConnectionStatus>
  error,             \* RwLock<Option<String>>
  progress_senders,  \* Mutex<HashMap<String, UnboundedSender>>: the registered ids
  network_info,      \* RwLock<NetworkInfo>
  storage_info,      \* RwLock<StorageInfo>
  net_writer,        \* whether network_info's write guard is held
  caps,              \* every capability connect started: its run state
  channel,           \* per operation id, the messages queued on its channel
  next_op,           \* the next operation id Uuid::new_v4 mints
  tasks,             \* per operation id, the spawned callback tasks not yet run
  dropped,           \* the operation ids send_progress found no sender for
  frames,            \* the calls in flight: a bag of frames
  last_return,       \* the call that returned last, and what it returned
  calls,             \* the method calls made on the manager so far
  CODEX_MANAGER,     \* OnceCell<Arc<CodexManager>>: None or the instance set
  getters,           \* per task, its call of get_codex_manager_with_handle
  gets,              \* the calls of get_codex_manager_with_handle so far
  running,           \* per thread, the method it is in and the next lock step
  guards             \* per lock of the manager, the guards held on it

vars ==
  <<node, status, error, progress_senders, network_info, storage_info, net_writer,
    caps, channel, next_op, tasks, dropped, frames, last_return, calls,
    CODEX_MANAGER, getters, gets, running, guards>>

\* The global cell and the calls of its accessor.
avars == <<CODEX_MANAGER, getters, gets>>

\* The locks of the manager and the threads inside its methods.
lvars == <<running, guards>>

\* The manager proper.
mvars ==
  <<node, status, error, progress_senders, network_info, storage_info, net_writer,
    caps, channel, next_op, tasks, dropped, frames, last_return, calls>>

\* A call in flight: the method, the position in it, and its locals
\* operation_id, node (created, taken or cloned) and argument.
Frame(k, l, id, n, a) ==
  [kind |-> k, pc |-> l, operation_id |-> id, lnode |-> n, arg |-> a]

\* ------------------------------------------------------------ construction
\* CodexManager::new, lines 206-226 (auto_connect is false, lines 125, 162)
Init ==
  /\ node = None
  /\ status = "Disconnected"
  /\ error = "None"
  /\ progress_senders = {}
  /\ network_info =
       [peer_id |-> "None", version |-> "None", repo_path |-> "None",
        connected_peers |-> 0, max_peers |-> DefaultMaxPeers]
  /\ storage_info =
       [used_bytes |-> 0, total_bytes |-> StorageQuota,
        available_bytes |-> StorageQuota, block_count |-> 0]
  /\ net_writer = FALSE
  /\ caps = [n \in NodeIds |-> "absent"]
  /\ channel = [o \in OpIds |-> <<>>]
  /\ next_op = 1
  /\ tasks = [o \in OpIds |-> <<>>]
  /\ dropped = {}
  /\ frames = EmptyBag
  /\ last_return = [kind |-> "none", result |-> "none", operation_id |-> None,
                    arg |-> "none"]
  /\ calls = 0
  /\ CODEX_MANAGER = None
  /\ getters = [t \in Tasks |-> [pc |-> "idle", result |-> "none", manager |-> None]]
  /\ gets = 0
  /\ running = [t \in Threads |-> [method |-> "idle", at |-> 0]]
  /\ guards = [l \in Locks |-> {}]

\* ------------------------------------------------------------------ helpers
InFlight == BagToSet(frames)
InLifecycle == {c \in InFlight : c.kind \in {"connect", "disconnect"}}
InTransfer == {c \in InFlight : c.kind \in {"upload", "download"}}

\* A caller is free to make one more call.
CanCall ==
  /\ BagCardinality(frames) < Cardinality(Callers)
  /\ calls < MaxCalls

\* A call starts with frame f.
Call(f) ==
  /\ CanCall
  /\ calls' = calls + 1
  /\ frames' = frames (+) SetToBag({f})

\* The call with frame c moves on to frame f.
Goto(c, f) == frames' = (frames (-) SetToBag({c})) (+) SetToBag({f})

At(c, l) == [c EXCEPT !.pc = l]

\* The call with frame c returns r to its caller; its locals are dropped.
Finish(c, r) ==
  /\ frames' = frames (-) SetToBag({c})
  /\ last_return' = [kind |-> c.kind, result |-> r,
                     operation_id |-> c.operation_id, arg |-> c.arg]

Created == {n \in NodeIds : caps[n] # "absent"}

\* lines 338-352: the readers clone the register under its read guard
get_status == status
get_error == error
get_network_info == network_info
get_storage_info == storage_info

\* ------------------------------------------------------------------ connect
\* The value connect writes to the status register first (line 241).
ConnectFirstStatus == "Connecting"

\* A connect that leaves the register at the value of its first write.
ConnectLastStatusStale == "Connecting"

\* The value connect writes to the status register last (line 288).
ConnectLastStatus == "Connected"

\* lines 235-278: connect is called; *status = Connecting; *error = None; then
\* CodexNode::new(codex_config) and node.start() on the new local capability:
\* the first Err returns NodeCreation, the second NodeStart, neither writes a
\* register, and a capability that did not start is dropped with the call.
ConnectBegin ==
  /\ CanCall
  /\ Cardinality(Created) < MaxNodes
  /\ calls' = calls + 1
  /\ status' = ConnectFirstStatus
  /\ error' = "None"
  /\ \E n \in NodeIds :
       /\ caps[n] = "absent"
       /\ \A m \in NodeIds : m < n => caps[m] # "absent"
       /\ \/ /\ caps' = [caps EXCEPT ![n] = "started"]
             /\ frames' =
                  frames (+) SetToBag({Frame("connect", "c_store", None, n, "none")})
             /\ UNCHANGED last_return
          \/ /\ \E e \in {"NodeCreation", "NodeStart"} :
                  last_return' = [kind |-> "connect", result |-> e,
                                  operation_id |-> None, arg |-> "none"]
             /\ UNCHANGED <<caps, frames>>
  /\ UNCHANGED <<node, progress_senders, network_info, storage_info, net_writer,
                 channel, next_op, tasks, dropped,
                 avars, lvars>>

\* lines 281-284: *node_guard = Some(node)
ConnectStoreNode(c) ==
  /\ c.pc = "c_store"
  /\ node' = c.lnode
  /\ Goto(c, At(c, "c_connected"))
  /\ UNCHANGED <<status, error, progress_senders, network_info, storage_info,
                 net_writer, caps, channel, next_op, tasks, dropped,
                 last_return, calls,
                 avars, lvars>>

\* lines 286-289: *status = Connected
ConnectSetConnected(c) ==
  /\ c.pc = "c_connected"
  /\ status' = ConnectLastStatus
  /\ Goto(c, At(c, "u_clone"))
  /\ UNCHANGED <<node, error, progress_senders, network_info, storage_info,
                 net_writer, caps, channel, next_op, tasks, dropped,
                 last_return, calls,
                 avars, lvars>>

\* ------------------------------------------------------ update_network_info
\* lines 532-538: clone the capability out of the slot, or NodeNotInitialized,
\* which line 292 (`?`) makes connect's own error.
UpdateCloneNode(c) ==
  /\ c.pc = "u_clone"
  /\ IF node = None
       THEN Finish(c, "NodeNotInitialized")
       ELSE /\ Goto(c, [c EXCEPT !.pc = "u_lock", !.lnode = node])
            /\ UNCHANGED last_return
  /\ UNCHANGED <<node, status, error, progress_senders, network_info,
                 storage_info, net_writer, caps, channel, next_op, tasks,
                 dropped, calls,
                 avars, lvars>>

\* A node query `.ok()`: Some(answer) when it succeeds, None when it fails.
QueryOk == {"Some", "None"}

\* line 540: self.network_info.write().await, granted when no one holds it
UpdateLockNetworkInfo(c) ==
  /\ c.pc = "u_lock"
  /\ ~net_writer
  /\ net_writer' = TRUE
  /\ Goto(c, At(c, "u_query"))
  /\ UNCHANGED <<node, status, error, progress_senders, network_info,
                 storage_info, caps, channel, next_op, tasks, dropped,
                 last_return, calls,
                 avars, lvars>>

\* A refresh whose three fields stand or fall together.
UpdateQueryNodeAllOrNothing(c) ==
  /\ c.pc = "u_query"
  /\ \E all \in QueryOk :
       network_info' =
         [network_info EXCEPT !.peer_id = all, !.version = all, !.repo_path = all]
  /\ Goto(c, At(c, "u_max_peers"))
  /\ UNCHANGED <<node, status, error, progress_senders, storage_info, net_writer,
                 caps, channel, next_op, tasks, dropped, last_return, calls,
                 avars, lvars>>

\* lines 542-544: with the write guard in hand, peer_id, version and repo_path
\* are each set to the node's answer `.ok()`
UpdateQueryNode(c) ==
  /\ c.pc = "u_query"
  /\ \E pid \in QueryOk, ver \in QueryOk, repo \in QueryOk :
       network_info' =
         [network_info EXCEPT !.peer_id = pid, !.version = ver, !.repo_path = repo]
  /\ Goto(c, At(c, "u_max_peers"))
  /\ UNCHANGED <<node, status, error, progress_senders, storage_info, net_writer,
                 caps, channel, next_op, tasks, dropped, last_return, calls,
                 avars, lvars>>

\* lines 545-549 and 292-295: max_peers, the guard is dropped, Ok(()) all the way
UpdateMaxPeers(c) ==
  /\ c.pc = "u_max_peers"
  /\ network_info' = [network_info EXCEPT !.max_peers = DefaultMaxPeers]
  /\ net_writer' = FALSE
  /\ Finish(c, "Ok")
  /\ UNCHANGED <<node, status, error, progress_senders, storage_info, caps,
                 channel, next_op, tasks, dropped, calls,
                 avars, lvars>>

\* --------------------------------------------------------------- disconnect
\* lines 298-303: disconnect is called; *status = Disconnected
DisconnectBegin ==
  /\ Call(Frame("disconnect", "d_take", None, None, "none"))
  /\ status' = "Disconnected"
  /\ UNCHANGED <<node, error, progress_senders, network_info, storage_info,
                 net_writer, caps, channel, next_op, tasks, dropped,
                 last_return,
                 avars, lvars>>

\* lines 307-310: node_guard.take()
DisconnectTakeNode(c) ==
  /\ c.pc = "d_take"
  /\ node' = None
  /\ Goto(c, [c EXCEPT !.pc = IF node = None THEN "d_clear" ELSE "d_stop",
                       !.lnode = node])
  /\ UNCHANGED <<status, error, progress_senders, network_info, storage_info,
                 net_writer, caps, channel, next_op, tasks, dropped,
                 last_return, calls,
                 avars, lvars>>

\* lines 312-317: node.stop(); an Err is printed and dropped
DisconnectStopNode(c) ==
  /\ c.pc = "d_stop"
  /\ \/ caps' = [caps EXCEPT ![c.lnode] = "stopped"]
     \/ UNCHANGED caps
  /\ Goto(c, At(c, "d_clear"))
  /\ UNCHANGED <<node, status, error, progress_senders, network_info,
                 storage_info, net_writer, channel, next_op, tasks,
                 dropped, last_return, calls,
                 avars, lvars>>

\* lines 321-327: the snapshot after disconnect cleared its live fields
ClearedNetworkInfo ==
  [network_info EXCEPT !.peer_id = "None", !.version = "None",
                       !.repo_path = "None", !.connected_peers = 0]

\* A disconnect that also drops the senders of the transfers in flight.
DisconnectClearCancelling(c) ==
  /\ c.pc = "d_clear"
  /\ ~net_writer
  /\ network_info' = ClearedNetworkInfo
  /\ error' = "None"
  /\ progress_senders' = {}
  /\ Finish(c, "Ok")
  /\ UNCHANGED <<node, status, storage_info, net_writer, caps,
                 channel, next_op, tasks, dropped, calls,
                 avars, lvars>>

\* lines 320-335: the live fields of network_info are cleared; *error = None; Ok(())
DisconnectClear(c) ==
  /\ c.pc = "d_clear"
  /\ ~net_writer
  /\ network_info' = ClearedNetworkInfo
  /\ error' = "None"
  /\ Finish(c, "Ok")
  /\ UNCHANGED <<node, status, progress_senders, storage_info, net_writer, caps,
                 channel, next_op, tasks, dropped, calls,
                 avars, lvars>>

\* ------------------------------------------------------------ send_progress
\* A message built without the id of its operation.
ProgressMessageUntagged(id, stage, text) ==
  [operation_id |-> None, stage |-> stage, message |-> text]

\* ProgressMessage::new(id).with_stage(stage).with_message(text), lines 50-80
ProgressMessage(id, stage, text) ==
  [operation_id |-> id, stage |-> stage, message |-> text]

\* The receiver `_rx` of an operation's channel is a local of the transfer: it
\* lives until the transfer returns (lines 358, 449).
RxAlive(id) == \E c \in InFlight : c.operation_id = id

\* lines 525-526: senders.get(operation_id) finds a sender whose channel can
\* still take a message (a send on a channel whose receiver is gone fails, and
\* `let _ =` drops the failure).
Delivers(id) == id \in progress_senders /\ RxAlive(id)

\* A send_progress that keeps the sender it was given instead of looking the
\* id up in the registry.
send_progress_no_lookup(id, progress) ==
  [channel EXCEPT ![id] = Append(@, progress)]

\* lines 524-529: the channels after send_progress(id, progress)
send_progress(id, progress) ==
  IF Delivers(id)
    THEN [channel EXCEPT ![id] = Append(@, progress)]
    ELSE channel

\* A call of send_progress(id, progress): the message is queued, the send
\* fails unnoticed, or (line 526, no sender under the id) nothing is done.
SendProgress(id, progress) ==
  /\ channel' = send_progress(id, progress)
  /\ dropped' = IF id \in progress_senders THEN dropped ELSE dropped \cup {id}

\* The messages the on_progress callbacks of an operation have queued.
CallbackMessages(id) ==
  {i \in 1..Len(channel[id]) : channel[id][i].message \in {"Uploaded", "Downloaded"}}

RECURSIVE SumOver(_, _)
SumOver(f, S) ==
  IF S = {} THEN 0
  ELSE LET x == CHOOSE y \in S : TRUE IN f[x] + SumOver(f, S \ {x})

\* The on_progress invocations whose task is pending or whose message is queued.
CallbacksSoFar ==
  SumOver([id \in OpIds |-> Len(tasks[id]) + Cardinality(CallbackMessages(id))],
          OpIds)

\* lines 359-362, 450-453: the registry after senders.insert(operation_id, tx)
InsertSender(id) == progress_senders \cup {id}

\* lines 433-436, 516-519: the registry after senders.remove(&operation_id)
RemoveSender(id) == progress_senders \ {id}

\* lines 394-398, 479-482: the stage of the second event of a transfer
StartStage(k) == IF k = "upload" THEN "Uploading" ELSE "Downloading"

\* -------------------- upload_file_with_progress

Paths == {"present", "missing"}

\* An exists() that finds every path.
exists_any(file_path) == TRUE

\* line 383: file_path.exists()
exists(file_path) == file_path # "missing"

\* lines 354-367: the call; the id is minted, its sender inserted and the
\* Initializing event sent
UploadBegin ==
  /\ next_op <= MaxOps
  /\ \E file_path \in Paths :
       Call(Frame("upload", "up_get_node", next_op, None, file_path))
  /\ next_op' = next_op + 1
  /\ progress_senders' = InsertSender(next_op)
  /\ channel' =
       [channel EXCEPT ![next_op] =
          Append(@, ProgressMessage(next_op, "Initializing", "None"))]
  /\ UNCHANGED <<node, status, error, network_info, storage_info, net_writer,
                 caps, tasks, dropped, last_return,
                 avars, lvars>>

\* lines 370-376: clone the capability out of the slot, or NodeNotInitialized
UploadGetNode(c) ==
  /\ c.pc = "up_get_node"
  /\ IF node = None
       THEN Finish(c, "NodeNotInitialized")
       ELSE /\ Goto(c, [c EXCEPT !.pc = "up_is_started", !.lnode = node])
            /\ UNCHANGED last_return
  /\ UNCHANGED <<node, status, error, progress_senders, network_info,
                 storage_info, net_writer, caps, channel, next_op, tasks,
                 dropped, calls,
                 avars, lvars>>

\* lines 378-398: is_started(), else NodeNotStarted; file_path.exists(), else
\* FileNotFound; std::fs::metadata, which may still fail with Io; then the
\* Uploading event with the file size
UploadValidate(c) ==
  /\ c.pc = "up_is_started"
  /\ \/ /\ caps[c.lnode] # "started"
        /\ Finish(c, "NodeNotStarted")
        /\ UNCHANGED <<channel, dropped>>
     \/ /\ caps[c.lnode] = "started"
        /\ ~exists(c.arg)
        /\ Finish(c, "FileNotFound")
        /\ UNCHANGED <<channel, dropped>>
     \/ /\ caps[c.lnode] = "started"
        /\ exists(c.arg)
        /\ Finish(c, "Io")
        /\ UNCHANGED <<channel, dropped>>
     \/ /\ caps[c.lnode] = "started"
        /\ exists(c.arg)
        /\ SendProgress(c.operation_id,
                           ProgressMessage(c.operation_id, StartStage("upload"),
                                           "Starting upload"))
        /\ Goto(c, At(c, "up_transfer"))
        /\ UNCHANGED last_return
  /\ UNCHANGED <<node, status, error, progress_senders, network_info,
                 storage_info, net_writer, caps, next_op, tasks, calls,
                 avars, lvars>>

\* lines 406-418: while the node call runs, the node invokes on_progress,
\* which spawns a task that will call send_progress
UploadOnProgress(c) ==
  /\ c.pc = "up_transfer"
  /\ CallbacksSoFar < MaxCallbacks
  /\ tasks' = [tasks EXCEPT ![c.operation_id] = Append(@, StartStage("upload"))]
  /\ UNCHANGED <<node, status, error, progress_senders, network_info,
                 storage_info, net_writer, caps, channel, next_op, frames,
                 last_return, calls, dropped,
                 avars, lvars>>

\* lines 421-423: upload_file(&node, upload_options).await: Ok, or Err,
\* which `?` returns as Upload at once
UploadNodeCall(c) ==
  /\ c.pc = "up_transfer"
  /\ \/ /\ Goto(c, At(c, "up_completed"))
        /\ UNCHANGED last_return
     \/ Finish(c, "Upload")
  /\ UNCHANGED <<node, status, error, progress_senders, network_info,
                 storage_info, net_writer, caps, channel, next_op, tasks,
                 dropped, calls,
                 avars, lvars>>

\* lines 426-430: the Completed event
UploadCompletedProgress(c) ==
  /\ c.pc = "up_completed"
  /\ SendProgress(c.operation_id,
                     ProgressMessage(c.operation_id, "Completed", "Upload completed"))
  /\ Goto(c, At(c, "up_cleanup"))
  /\ UNCHANGED <<node, status, error, progress_senders, network_info,
                 storage_info, net_writer, caps, next_op, tasks, last_return,
                 calls,
                 avars, lvars>>

\* lines 433-438: senders.remove(&operation_id); Ok
UploadCleanup(c) ==
  /\ c.pc = "up_cleanup"
  /\ progress_senders' = RemoveSender(c.operation_id)
  /\ Finish(c, "Ok")
  /\ UNCHANGED <<node, status, error, network_info, storage_info, net_writer,
                 caps, channel, next_op, tasks, dropped, calls,
                 avars, lvars>>

\* -------------------- download_file_with_progress

Cids == {"cid", "empty"}

\* lines 441-458: the call; the id is minted, its sender inserted and the
\* Initializing event sent
DownloadBegin ==
  /\ next_op <= MaxOps
  /\ \E cid \in Cids :
       Call(Frame("download", "dl_get_node", next_op, None, cid))
  /\ next_op' = next_op + 1
  /\ progress_senders' = InsertSender(next_op)
  /\ channel' =
       [channel EXCEPT ![next_op] =
          Append(@, ProgressMessage(next_op, "Initializing", "None"))]
  /\ UNCHANGED <<node, status, error, network_info, storage_info, net_writer,
                 caps, tasks, dropped, last_return,
                 avars, lvars>>

\* lines 461-467: clone the capability out of the slot, or NodeNotInitialized
DownloadGetNode(c) ==
  /\ c.pc = "dl_get_node"
  /\ IF node = None
       THEN Finish(c, "NodeNotInitialized")
       ELSE /\ Goto(c, [c EXCEPT !.pc = "dl_is_started", !.lnode = node])
            /\ UNCHANGED last_return
  /\ UNCHANGED <<node, status, error, progress_senders, network_info,
                 storage_info, net_writer, caps, channel, next_op, tasks,
                 dropped, calls,
                 avars, lvars>>

\* lines 469-482: is_started(), else NodeNotStarted; cid.is_empty() gives
\* InvalidCid; then the Downloading event
DownloadValidate(c) ==
  /\ c.pc = "dl_is_started"
  /\ \/ /\ caps[c.lnode] # "started"
        /\ Finish(c, "NodeNotStarted")
        /\ UNCHANGED <<channel, dropped>>
     \/ /\ caps[c.lnode] = "started"
        /\ c.arg = "empty"
        /\ Finish(c, "InvalidCid")
        /\ UNCHANGED <<channel, dropped>>
     \/ /\ caps[c.lnode] = "started"
        /\ c.arg # "empty"
        /\ SendProgress(c.operation_id,
                           ProgressMessage(c.operation_id, StartStage("download"),
                                           "Starting download"))
        /\ Goto(c, At(c, "dl_transfer"))
        /\ UNCHANGED last_return
  /\ UNCHANGED <<node, status, error, progress_senders, network_info,
                 storage_info, net_writer, caps, next_op, tasks, calls,
                 avars, lvars>>

\* lines 489-501: while the node call runs, the node invokes on_progress,
\* which spawns a task that will call send_progress
DownloadOnProgress(c) ==
  /\ c.pc = "dl_transfer"
  /\ CallbacksSoFar < MaxCallbacks
  /\ tasks' = [tasks EXCEPT ![c.operation_id] = Append(@, StartStage("download"))]
  /\ UNCHANGED <<node, status, error, progress_senders, network_info,
                 storage_info, net_writer, caps, channel, next_op, frames,
                 last_return, calls, dropped,
                 avars, lvars>>

\* lines 504-506: download_stream(&node, &cid, options).await: Ok, or Err,
\* which `?` returns as Download at once
DownloadNodeCall(c) ==
  /\ c.pc = "dl_transfer"
  /\ \/ /\ Goto(c, At(c, "dl_completed"))
        /\ UNCHANGED last_return
     \/ Finish(c, "Download")
  /\ UNCHANGED <<node, status, error, progress_senders, network_info,
                 storage_info, net_writer, caps, channel, next_op, tasks,
                 dropped, calls,
                 avars, lvars>>

\* lines 509-513: the Completed event
DownloadCompletedProgress(c) ==
  /\ c.pc = "dl_completed"
  /\ SendProgress(c.operation_id,
                     ProgressMessage(c.operation_id, "Completed", "Download completed"))
  /\ Goto(c, At(c, "dl_cleanup"))
  /\ UNCHANGED <<node, status, error, progress_senders, network_info,
                 storage_info, net_writer, caps, next_op, tasks, last_return,
                 calls,
                 avars, lvars>>

\* lines 516-521: senders.remove(&operation_id); Ok
DownloadCleanup(c) ==
  /\ c.pc = "dl_cleanup"
  /\ progress_senders' = RemoveSender(c.operation_id)
  /\ Finish(c, "Ok")
  /\ UNCHANGED <<node, status, error, network_info, storage_info, net_writer,
                 caps, channel, next_op, tasks, dropped, calls,
                 avars, lvars>>

\* ------------------------------------- connect_to_peer, get_node_addresses
\* lines 551-555: connect_to_peer is called
ConnectToPeerBegin ==
  /\ Call(Frame("connect_to_peer", "cp_get_node", None, None, "none"))
  /\ UNCHANGED <<node, status, error, progress_senders, network_info,
                 storage_info, net_writer, caps, channel, next_op, tasks,
                 dropped, last_return,
                 avars, lvars>>

\* A connect_to_peer that takes an empty slot for a success.
ConnectToPeerGetNodeLenient(c) ==
  /\ c.pc = "cp_get_node"
  /\ IF node = None
       THEN Finish(c, "Ok")
       ELSE /\ Goto(c, [c EXCEPT !.pc = "cp_node_call", !.lnode = node])
            /\ UNCHANGED last_return
  /\ UNCHANGED <<node, status, error, progress_senders, network_info,
                 storage_info, net_writer, caps, channel, next_op, tasks,
                 dropped, calls,
                 avars, lvars>>

\* lines 557-563: clone the capability out of the slot, or NodeNotInitialized
ConnectToPeerGetNode(c) ==
  /\ c.pc = "cp_get_node"
  /\ IF node = None
       THEN Finish(c, "NodeNotInitialized")
       ELSE /\ Goto(c, [c EXCEPT !.pc = "cp_node_call", !.lnode = node])
            /\ UNCHANGED last_return
  /\ UNCHANGED <<node, status, error, progress_senders, network_info,
                 storage_info, net_writer, caps, channel, next_op, tasks,
                 dropped, calls,
                 avars, lvars>>

\* lines 565-574: is_started(), else NodeNotStarted; then connect(&node, ..),
\* whose Err is returned as Configuration
ConnectToPeerNodeCall(c) ==
  /\ c.pc = "cp_node_call"
  /\ IF caps[c.lnode] # "started"
       THEN Finish(c, "NodeNotStarted")
       ELSE \E r \in {"Ok", "Configuration"} : Finish(c, r)
  /\ UNCHANGED <<node, status, error, progress_senders, network_info,
                 storage_info, net_writer, caps, channel, next_op, tasks,
                 dropped, calls,
                 avars, lvars>>

\* line 577: get_node_addresses is called
GetNodeAddressesBegin ==
  /\ Call(Frame("get_node_addresses", "na_get_node", None, None, "none"))
  /\ UNCHANGED <<node, status, error, progress_senders, network_info,
                 storage_info, net_writer, caps, channel, next_op, tasks,
                 dropped, last_return,
                 avars, lvars>>

\* lines 579-585: clone the capability out of the slot, or NodeNotInitialized
GetNodeAddressesGetNode(c) ==
  /\ c.pc = "na_get_node"
  /\ IF node = None
       THEN Finish(c, "NodeNotInitialized")
       ELSE /\ Goto(c, [c EXCEPT !.pc = "na_node_call", !.lnode = node])
            /\ UNCHANGED last_return
  /\ UNCHANGED <<node, status, error, progress_senders, network_info,
                 storage_info, net_writer, caps, channel, next_op, tasks,
                 dropped, calls,
                 avars, lvars>>

\* lines 587-595: is_started(), else NodeNotStarted; then debug(&node), whose
\* Err is returned as Configuration
GetNodeAddressesNodeCall(c) ==
  /\ c.pc = "na_node_call"
  /\ IF caps[c.lnode] # "started"
       THEN Finish(c, "NodeNotStarted")
       ELSE \E r \in {"Ok", "Configuration"} : Finish(c, r)
  /\ UNCHANGED <<node, status, error, progress_senders, network_info,
                 storage_info, net_writer, caps, channel, next_op, tasks,
                 dropped, calls,
                 avars, lvars>>

\* ------------------------------------------------- spawned callback tasks
\* lines 409-417 and 492-500: a spawned task runs, whenever the scheduler
\* picks it: it builds its message and calls send_progress with the id it
\* captured.
CallbackTask(id) ==
  /\ tasks[id] # <<>>
  /\ SendProgress(id,
                     ProgressMessage(id, Head(tasks[id]),
                                     IF Head(tasks[id]) = "Uploading"
                                       THEN "Uploaded" ELSE "Downloaded"))
  /\ tasks' = [tasks EXCEPT ![id] = Tail(@)]
  /\ UNCHANGED <<node, status, error, progress_senders, network_info,
                 storage_info, net_writer, caps, next_op, frames, last_return,
                 calls,
                 avars, lvars>>

\* ------------------------------------------------------------ specification
Lifecycle == ConnectBegin \/ DisconnectBegin

Transfer == UploadBegin \/ DownloadBegin

Query == ConnectToPeerBegin \/ GetNodeAddressesBegin

\* A call in flight takes its next step.
Step ==
  \/ \E c \in InFlight : ConnectStoreNode(c)
  \/ \E c \in InFlight : ConnectSetConnected(c)
  \/ \E c \in InFlight : UpdateCloneNode(c)
  \/ \E c \in InFlight : UpdateLockNetworkInfo(c)
  \/ \E c \in InFlight : UpdateQueryNode(c)
  \/ \E c \in InFlight : UpdateMaxPeers(c)
  \/ \E c \in InFlight : DisconnectTakeNode(c)
  \/ \E c \in InFlight : DisconnectStopNode(c)
  \/ \E c \in InFlight : DisconnectClear(c)
  \/ \E c \in InFlight : UploadGetNode(c)
  \/ \E c \in InFlight : UploadValidate(c)
  \/ \E c \in InFlight : UploadOnProgress(c)
  \/ \E c \in InFlight : UploadNodeCall(c)
  \/ \E c \in InFlight : UploadCompletedProgress(c)
  \/ \E c \in InFlight : UploadCleanup(c)
  \/ \E c \in InFlight : DownloadGetNode(c)
  \/ \E c \in InFlight : DownloadValidate(c)
  \/ \E c \in InFlight : DownloadOnProgress(c)
  \/ \E c \in InFlight : DownloadNodeCall(c)
  \/ \E c \in InFlight : DownloadCompletedProgress(c)
  \/ \E c \in InFlight : DownloadCleanup(c)
  \/ \E c \in InFlight : ConnectToPeerGetNode(c)
  \/ \E c \in InFlight : ConnectToPeerNodeCall(c)
  \/ \E c \in InFlight : GetNodeAddressesGetNode(c)
  \/ \E c \in InFlight : GetNodeAddressesNodeCall(c)

\* A spawned callback task is scheduled.
Callback == \E id \in OpIds : CallbackTask(id)

Next == Lifecycle \/ Transfer \/ Query \/ Step \/ Callback

\* Every interleaving of the callers and the callback tasks.
Spec == Init /\ [][Next]_vars

\* connect and disconnect are called one after the other (a sequence of
\* lifecycle calls); transfers and callback tasks still run concurrently.
SeqNext ==
  (InLifecycle = {} /\ Lifecycle) \/ Transfer \/ Query \/ Step \/ Callback

SeqSpec == Init /\ [][SeqNext]_vars

\* The manager after a connect that returned Ok (lines 235-296): the started
\* capability is in the slot, the status is Connected and the snapshot holds
\* what the node answered.  The calls are counted from here.
ConnectedInit ==
  /\ node = 1
  /\ status = ConnectLastStatus
  /\ error = "None"
  /\ progress_senders = {}
  /\ \E pid \in QueryOk, ver \in QueryOk, repo \in QueryOk :
       network_info =
         [peer_id |-> pid, version |-> ver, repo_path |-> repo,
          connected_peers |-> 0, max_peers |-> DefaultMaxPeers]
  /\ storage_info =
       [used_bytes |-> 0, total_bytes |-> StorageQuota,
        available_bytes |-> StorageQuota, block_count |-> 0]
  /\ net_writer = FALSE
  /\ caps = [n \in NodeIds |-> IF n = 1 THEN "started" ELSE "absent"]
  /\ channel = [o \in OpIds |-> <<>>]
  /\ next_op = 1
  /\ tasks = [o \in OpIds |-> <<>>]
  /\ dropped = {}
  /\ frames = EmptyBag
  /\ last_return = [kind |-> "connect", result |-> "Ok", operation_id |-> None,
                    arg |-> "none"]
  /\ calls = 0
  /\ CODEX_MANAGER = None
  /\ getters = [t \in Tasks |-> [pc |-> "idle", result |-> "none", manager |-> None]]
  /\ gets = 0
  /\ running = [t \in Threads |-> [method |-> "idle", at |-> 0]]
  /\ guards = [l \in Locks |-> {}]

\* Every interleaving of the calls made on a connected manager.
ConnectedSpec == ConnectedInit /\ [][Next]_vars

\* ------------------------------------------- get_codex_manager_with_handle
\* lines 649-653: the call; CODEX_MANAGER.get() hands out the instance in
\* the cell, or finds the cell empty
GetManagerGet(t) ==
  /\ getters[t].pc = "idle"
  /\ gets < MaxGets
  /\ gets' = gets + 1
  /\ getters' =
       [getters EXCEPT ![t] =
          IF CODEX_MANAGER # None
            THEN [pc |-> "done", result |-> "Ok", manager |-> CODEX_MANAGER]
            ELSE [pc |-> "init", result |-> "none", manager |-> None]]
  /\ UNCHANGED <<CODEX_MANAGER, mvars, lvars>>

\* lines 655-664: the task builds a new instance (named after the task) and
\* calls CODEX_MANAGER.set(manager.clone()): Ok when the cell was empty, else
\* the Err is returned as Configuration
GetManagerSet(t) ==
  /\ getters[t].pc = "init"
  /\ IF CODEX_MANAGER = None
       THEN /\ CODEX_MANAGER' = t
            /\ getters' = [getters EXCEPT ![t] =
                 [pc |-> "done", result |-> "Ok", manager |-> t]]
       ELSE /\ getters' = [getters EXCEPT ![t] =
                 [pc |-> "done", result |-> "Configuration", manager |-> None]]
            /\ UNCHANGED CODEX_MANAGER
  /\ UNCHANGED <<gets, mvars, lvars>>

\* The caller goes on with what it got; the task is free to call again.
GetManagerReturn(t) ==
  /\ getters[t].pc = "done"
  /\ getters' = [getters EXCEPT ![t] =
       [pc |-> "idle", result |-> "none", manager |-> None]]
  /\ UNCHANGED <<CODEX_MANAGER, gets, mvars, lvars>>

AccessNext ==
  \/ \E t \in Tasks : GetManagerGet(t)
  \/ \E t \in Tasks : GetManagerSet(t)
  \/ \E t \in Tasks : GetManagerReturn(t)

\* The tasks of the commands (lines 673-830) calling the accessor, on every
\* thread of the runtime.
AccessSpec == Init /\ [][AccessNext]_vars

\* ------------------------------------------------- the locks of the manager
\* Each method as the sequence of its lock steps and node calls, in source
\* order.  A step with exit = TRUE is one after which the method may return
\* early (`?` or `return Err`); a guard held at a `?` is dropped with it.
Acquire(l, m) == [op |-> "acquire", lock |-> l, mode |-> m, exit |-> FALSE]
Release(l, x) == [op |-> "release", lock |-> l, mode |-> "none", exit |-> x]
NodeCall(x) == [op |-> "node", lock |-> "none", mode |-> "none", exit |-> x]

\* { let g = self.<l>.lock().await / .write().await; ... }: one block
Block(l) == <<Acquire(l, "w"), Release(l, FALSE)>>

\* lines 338-352: self.<l>.read().await.clone()
ReaderProgram(l) == <<Acquire(l, "r"), Release(l, FALSE)>>

\* lines 524-529: the registry is locked for the lookup and the send
SendProgressProgram == Block("progress_senders")

\* lines 370-376, 461-467, 532-538, 557-563, 579-585: the slot is locked, the
\* capability cloned, and the guard dropped at the end of the block or at `?`
CloneNodeProgram == <<Acquire("node", "w"), Release("node", TRUE)>>

\* An update_network_info that keeps the guard of the slot while it waits
\* for the write guard of network_info.
UpdateNetworkInfoProgramNested ==
  <<Acquire("node", "w"), Acquire("network_info", "w"), NodeCall(FALSE),
    NodeCall(FALSE), NodeCall(FALSE), Release("network_info", FALSE),
    Release("node", FALSE)>>

\* lines 531-549: the clone; network_info.write() at 540, held over
\* node.peer_id(), node.version(), node.repo() and dropped at the end
UpdateNetworkInfoProgram ==
  CloneNodeProgram \o
  <<Acquire("network_info", "w"), NodeCall(FALSE), NodeCall(FALSE),
    NodeCall(FALSE), Release("network_info", FALSE)>>

\* lines 235-296: status, error, CodexNode::new, node.start(), the slot,
\* status, update_network_info
ConnectProgram ==
  Block("status") \o Block("error") \o <<NodeCall(TRUE), NodeCall(TRUE)>> \o
  Block("node") \o Block("status") \o UpdateNetworkInfoProgram

\* lines 298-336: status, the slot (take), node.stop(), network_info, error
DisconnectProgram ==
  Block("status") \o Block("node") \o <<NodeCall(FALSE)>> \o
  Block("network_info") \o Block("error")

\* An upload that keeps the guard of the slot until upload_file has returned.
UploadProgramHoldingSlot ==
  Block("progress_senders") \o SendProgressProgram \o
  <<Acquire("node", "w"), NodeCall(TRUE), NodeCall(TRUE)>> \o
  SendProgressProgram \o <<NodeCall(FALSE), Release("node", TRUE)>> \o
  SendProgressProgram \o Block("progress_senders")

\* lines 354-439: insert, send_progress, the clone, is_started(), the file
\* checks, send_progress, upload_file, send_progress, remove
UploadProgram ==
  Block("progress_senders") \o SendProgressProgram \o CloneNodeProgram \o
  <<NodeCall(TRUE), NodeCall(TRUE)>> \o SendProgressProgram \o
  <<NodeCall(TRUE)>> \o SendProgressProgram \o Block("progress_senders")

\* lines 441-522: insert, send_progress, the clone, is_started(), the cid
\* check, send_progress, download_stream, send_progress, remove
DownloadProgram ==
  Block("progress_senders") \o SendProgressProgram \o CloneNodeProgram \o
  <<NodeCall(TRUE), NodeCall(TRUE)>> \o SendProgressProgram \o
  <<NodeCall(TRUE)>> \o SendProgressProgram \o Block("progress_senders")

\* lines 551-575: the clone, is_started(), connect
ConnectToPeerProgram == CloneNodeProgram \o <<NodeCall(TRUE), NodeCall(TRUE)>>

\* lines 577-596: the clone, is_started(), debug
GetNodeAddressesProgram == CloneNodeProgram \o <<NodeCall(TRUE), NodeCall(TRUE)>>

Readers == {"get_status", "get_error", "get_network_info", "get_storage_info"}

\* The public methods a caller invokes.
Methods ==
  {"connect", "disconnect", "upload", "download", "connect_to_peer",
   "get_node_addresses"} \cup Readers

Program(m) ==
  CASE m = "connect" -> ConnectProgram
    [] m = "disconnect" -> DisconnectProgram
    [] m = "upload" -> UploadProgram
    [] m = "download" -> DownloadProgram
    [] m = "connect_to_peer" -> ConnectToPeerProgram
    [] m = "get_node_addresses" -> GetNodeAddressesProgram
    [] m = "send_progress" -> SendProgressProgram
    [] m = "get_status" -> ReaderProgram("status")
    [] m = "get_error" -> ReaderProgram("error")
    [] m = "get_network_info" -> ReaderProgram("network_info")
    [] m = "get_storage_info" -> ReaderProgram("storage_info")

Busy(t) == running[t].method # "idle"

\* The step thread t is about to take.
NextOp(t) == Program(running[t].method)[running[t].at]

\* The locks thread t holds a guard on.
Held(t) == {l \in Locks : \E m \in {"r", "w"} : <<t, m>> \in guards[l]}

\* tokio's Mutex and RwLock: a write guard (and a Mutex guard) is exclusive,
\* read guards are shared.
Grantable(l, m) ==
  IF m = "w" THEN guards[l] = {} ELSE \A g \in guards[l] : g[2] = "r"

\* Thread t has taken its step: it returns when that was the last one of the
\* method, and otherwise moves to the next.
Advance(t) ==
  running' =
    [running EXCEPT ![t] =
       IF running[t].at = Len(Program(running[t].method))
         THEN [method |-> "idle", at |-> 0]
         ELSE [@ EXCEPT !.at = @ + 1]]

\* A caller invokes a method; the runtime picks up a spawned callback task
\* (lines 409-417, 492-500), which calls send_progress.
Invoke(t) ==
  /\ ~Busy(t)
  /\ \E m \in (IF t = "task" THEN {"send_progress"} ELSE Methods) :
       running' = [running EXCEPT ![t] = [method |-> m, at |-> 1]]
  /\ UNCHANGED <<guards, mvars, avars>>

\* .lock().await, .read().await, .write().await: the thread waits until the
\* guard can be granted
AcquireStep(t) ==
  /\ Busy(t)
  /\ NextOp(t).op = "acquire"
  /\ Grantable(NextOp(t).lock, NextOp(t).mode)
  /\ guards' = [guards EXCEPT ![NextOp(t).lock] = @ \cup {<<t, NextOp(t).mode>>}]
  /\ Advance(t)
  /\ UNCHANGED <<mvars, avars>>

\* The guard goes out of scope, at the end of its block or at a `?` in it.
ReleaseStep(t) ==
  /\ Busy(t)
  /\ NextOp(t).op = "release"
  /\ guards' =
       [guards EXCEPT ![NextOp(t).lock] = {g \in @ : g[1] # t}]
  /\ \/ Advance(t)
     \/ /\ NextOp(t).exit
        /\ running' = [running EXCEPT ![t] = [method |-> "idle", at |-> 0]]
  /\ UNCHANGED <<mvars, avars>>

\* A call on a capability (or a check between two locks) returns.
NodeStep(t) ==
  /\ Busy(t)
  /\ NextOp(t).op = "node"
  /\ \/ Advance(t)
     \/ /\ NextOp(t).exit
        /\ running' = [running EXCEPT ![t] = [method |-> "idle", at |-> 0]]
  /\ UNCHANGED <<guards, mvars, avars>>

\* Thread t takes the next step of the method it is in.
LockStep(t) == AcquireStep(t) \/ ReleaseStep(t) \/ NodeStep(t)

LockNext ==
  \/ \E t \in Threads : Invoke(t)
  \/ \E t \in Threads : AcquireStep(t)
  \/ \E t \in Threads : ReleaseStep(t)
  \/ \E t \in Threads : NodeStep(t)

\* Every interleaving of the threads over the locks of the manager.
LockSpec == Init /\ [][LockNext]_vars

\* The same, where every thread that can step does so in the end: tokio's
\* locks are granted in arrival order, and every node call returns.
FairLockSpec == LockSpec /\ \A t \in Threads : SF_vars(LockStep(t))

\* ------------------------------------------------------------------ claims
\* The steps of the calls, as seen from a pair of states.
\* The call with frame c returns in this step.
Returns(c) == frames' = frames (-) SetToBag({c})

\* connect is called in this step (it fails at once, or a connect frame starts).
ConnectCalled ==
  /\ calls' = calls + 1
  /\ \/ frames' = frames /\ last_return'.kind = "connect"
     \/ \E f \in BagToSet(frames') :
          f.kind = "connect" /\ CopiesIn(f, frames') > CopiesIn(f, frames)

\* A spawned callback task of operation id runs in this step.
CallbackRuns(id) == tasks[id] # <<>> /\ tasks'[id] = Tail(tasks[id])

Minted == 1..(next_op - 1)
Terminal == {"Completed", "Failed"}
TerminalEvents(id) == {i \in 1..Len(channel[id]) : channel[id][i].stage \in Terminal}
Quiescent == frames = EmptyBag

\* C1: in every reachable state the node slot holds a capability if and only
\* if the status register is Connected.
C1_SlotIffConnected == (node # None) <=> (status = "Connected")

\* C2: when connect and disconnect are called one after the other, the status
\* read right after a connect that returned Ok is Connected, and the status
\* read right after a disconnect returned is Disconnected.
C2_StatusAfterLifecycle ==
  [][\A c \in InLifecycle :
       Returns(c) =>
         /\ (c.kind = "connect" /\ last_return'.result = "Ok")
              => get_status' = "Connected"
         /\ c.kind = "disconnect" => get_status' = "Disconnected"]_vars

\* C2's case: a disconnect has returned after a connect that stored its started
\* capability and returned Ok, and the register reads Disconnected.
C2_Witness ==
  /\ last_return.kind = "disconnect"
  /\ last_return.result = "Ok"
  /\ caps[1] = "stopped"
  /\ network_info.max_peers = DefaultMaxPeers
  /\ get_status = "Disconnected"
  /\ Quiescent

\* C3: every operation id a transfer inserted is removed before the transfer
\* returns, so with no transfer in flight the registry is empty.
C3_RegistryEmptyWhenNoTransfer == InTransfer = {} => progress_senders = {}

\* C4: once an operation's entry is removed, the last event on its channel is
\* a terminal one; and a transfer that returned sent exactly one terminal event.
C4_ExactlyOneTerminalLast ==
  \A id \in Minted :
    /\ id \notin progress_senders =>
         /\ channel[id] # <<>>
         /\ channel[id][Len(channel[id])].stage \in Terminal
    /\ ~RxAlive(id) => Cardinality(TerminalEvents(id)) = 1

\* C5: a transfer that returned Upload or Download (the node call failed) has
\* sent a Failed event on its channel and has removed its registry entry.
C5_FailedEventThenRemoved ==
  last_return.result \in {"Upload", "Download"} =>
    /\ \E i \in 1..Len(channel[last_return.operation_id]) :
         channel[last_return.operation_id][i].stage = "Failed"
    /\ last_return.operation_id \notin progress_senders

\* C6: when connect returns NodeCreation or NodeStart, it has set the status
\* to Error and stored the failure reason, and the slot does not hold the
\* capability that failed.
C6_ConnectFailureSetsError ==
  [][(ConnectCalled /\ frames' = frames) =>
       /\ get_status' = "Error"
       /\ get_error' # "None"
       /\ node' = node]_vars

\* C7: a connect called while the status is Connecting or Connected is a
\* no-op: no capability is created or started, no call is left running that
\* would replace the slot, and the status register does not change.
C7_ConnectWhileConnectedIsNoOp ==
  [][(ConnectCalled /\ status \in {"Connecting", "Connected"}) =>
       /\ caps' = caps
       /\ frames' = frames
       /\ status' = status
       /\ node' = node]_vars

\* C8: a disconnect called when the status is Disconnected and the slot empty
\* changes nothing.  With no other call in flight, what disconnect writes is
\* fixed (lines 302, 309, 323-326, 332), so this says: every such state
\* already holds what disconnect would write.
C8_DisconnectWhenDisconnectedIsNoOp ==
  (Quiescent /\ status = "Disconnected" /\ node = None) =>
    /\ ClearedNetworkInfo = network_info
    /\ error = "None"

\* C9: a send_progress for an operation id that has no registry entry (removed,
\* or never registered) queues no event and does not re-create the entry: a
\* callback task that runs after the removal leaves every channel and the
\* registry as they are.
C9_SendAfterRemovalIsNoOp ==
  [][/\ \A id \in OpIds \ progress_senders, st \in OperationStage :
          send_progress(id, ProgressMessage(id, st, "None")) = channel
     /\ \A id \in OpIds \ progress_senders :
          CallbackRuns(id) =>
            channel' = channel /\ progress_senders' = progress_senders]_vars

\* C9's case: the callback task of a transfer ran after the transfer removed
\* its entry; its event was dropped, the Completed event is still the last one
\* queued, and the entry is still absent.
C9_Witness ==
  \E id \in Minted :
    /\ id \in dropped
    /\ id \notin progress_senders
    /\ tasks[id] = <<>>
    /\ channel[id][Len(channel[id])].stage = "Completed"

\* C10: a transfer whose precondition check failed leaves no entry of its own
\* in the registry.
C10_FailedValidationLeavesNoEntry ==
  (/\ last_return.kind \in {"upload", "download"}
   /\ last_return.result \in
        {"NodeNotInitialized", "NodeNotStarted", "FileNotFound", "InvalidCid"})
    => last_return.operation_id \notin progress_senders
\* The stages of the events queued on the channel of operation id.
Stages(id) == {channel[id][i].stage : i \in 1..Len(channel[id])}

\* The upload with frame c is past its checks: the node's upload call is made.
UploadCallMade(c) == c.pc \in {"up_transfer", "up_completed", "up_cleanup"}

\* No upload of a missing path, in flight or the last to return, has an
\* Uploading event on its channel, a callback spawned or its node call made.
MissingPathNeverUploads ==
  /\ \A c \in InTransfer :
       (c.kind = "upload" /\ c.arg = "missing") =>
         /\ ~UploadCallMade(c)
         /\ "Uploading" \notin Stages(c.operation_id)
         /\ tasks[c.operation_id] = <<>>
  /\ (last_return.kind = "upload" /\ last_return.arg = "missing") =>
       "Uploading" \notin Stages(last_return.operation_id)

\* C11 as stated: an upload of a path that does not exist returns
\* FileNotFound, sends no Uploading event and never makes the node's upload call.
C11_MissingPathIsFileNotFound ==
  [][/\ MissingPathNeverUploads'
     /\ \A c \in InTransfer :
          (Returns(c) /\ c.kind = "upload" /\ c.arg = "missing") =>
            last_return'.result = "FileNotFound"]_vars

\* C11 as amended: an upload of a path that does not exist returns FileNotFound
\* when the slot held a capability and that capability is started (it returns
\* NodeNotInitialized when the slot was empty and NodeNotStarted when the
\* capability is not started); in every case it sends no Uploading event and
\* never makes the node's upload call.
C11_MissingPathFailsBeforeUploading ==
  [][/\ MissingPathNeverUploads'
     /\ \A c \in InTransfer :
          (Returns(c) /\ c.kind = "upload" /\ c.arg = "missing") =>
            last_return'.result =
              IF c.pc = "up_get_node" THEN "NodeNotInitialized"
              ELSE IF caps[c.lnode] # "started" THEN "NodeNotStarted"
              ELSE "FileNotFound"]_vars

\* C11's case: an upload of a missing path has returned FileNotFound, and
\* its channel holds the Initializing event only.
C11_Witness ==
  /\ last_return.kind = "upload"
  /\ last_return.arg = "missing"
  /\ last_return.result = "FileNotFound"
  /\ Stages(last_return.operation_id) = {"Initializing"}
\* The transfer with frame c returns from the step that asks its clone of the
\* capability is_started() (lines 378, 469).
IsStartedAsked(c) == c.pc \in {"up_is_started", "dl_is_started"}

\* C12: a download with an empty content identifier returns InvalidCid in
\* every manager state, and returns without having called the capability (no
\* is_started query, no download call).
C12_EmptyCidWithoutNodeCall ==
  [][\A c \in InTransfer :
       (Returns(c) /\ c.kind = "download" /\ c.arg = "empty") =>
         /\ last_return'.result = "InvalidCid"
         /\ ~IsStartedAsked(c)
         /\ c.pc \notin {"dl_transfer", "dl_completed", "dl_cleanup"}]_vars
\* The methods that work on a clone of the capability in the slot.
NodeUsers == {"upload", "download", "connect_to_peer", "get_node_addresses"}

\* The call with frame c takes a step.
Moves(c) == CopiesIn(c, frames') < CopiesIn(c, frames)

\* The call with frame c is about to read the slot.
AtGetNode(c) ==
  c.pc \in {"up_get_node", "dl_get_node", "cp_get_node", "na_get_node"}

\* The call with frame c is about to ask its clone is_started().
AtIsStarted(c) ==
  c.pc \in {"up_is_started", "dl_is_started", "cp_node_call", "na_node_call"}

\* C13: an upload, download, connect_to_peer or get_node_addresses that finds
\* the slot empty returns NodeNotInitialized, one that finds its capability
\* not started returns NodeNotStarted, and no step of these methods changes
\* the status register, the node slot or the network snapshot.
C13_NoNodeIsReturnedError ==
  [][\A c \in InFlight :
       (c.kind \in NodeUsers /\ Moves(c)) =>
         /\ (AtGetNode(c) /\ node = None) =>
              Returns(c) /\ last_return'.result = "NodeNotInitialized"
         /\ (AtIsStarted(c) /\ caps[c.lnode] # "started") =>
              Returns(c) /\ last_return'.result = "NodeNotStarted"
         /\ get_status' = get_status
         /\ node' = node
         /\ get_network_info' = get_network_info]_vars

\* C13's case: connect_to_peer found the slot of a disconnected manager
\* empty and returned NodeNotInitialized.
C13_Witness ==
  /\ last_return.kind = "connect_to_peer"
  /\ last_return.result = "NodeNotInitialized"
  /\ node = None
  /\ status = "Disconnected"
\* The uploads in flight.
Uploads == {c \in InTransfer : c.kind = "upload"}

\* C14: uploads running concurrently on a connected manager have distinct
\* operation ids and each its own registry entry; every event queued on a
\* channel carries the operation id of that channel; and an upload whose node
\* call succeeded has its own Completed event on its own channel, whatever the
\* other call and the callbacks did in between.
C14_ConcurrentUploadsAreIndependent ==
  /\ \A c \in Uploads :
       /\ CopiesIn(c, frames) = 1
       /\ c.operation_id \in progress_senders
       /\ \A d \in Uploads \ {c} : d.operation_id # c.operation_id
       /\ c.pc = "up_cleanup" => "Completed" \in Stages(c.operation_id)
  /\ \A id \in OpIds : \A i \in 1..Len(channel[id]) :
       channel[id][i].operation_id = id
  /\ (last_return.kind = "upload" /\ last_return.result = "Ok") =>
       "Completed" \in Stages(last_return.operation_id)

\* C14's case: two uploads are in flight on a connected manager, both node
\* calls have succeeded, and a callback of one of them has queued its event.
C14_Witness ==
  /\ status = "Connected"
  /\ \E c \in Uploads, d \in Uploads :
       /\ c.operation_id # d.operation_id
       /\ c.pc = "up_cleanup"
       /\ d.pc = "up_cleanup"
       /\ CallbackMessages(c.operation_id) # {}
\* The next step of the call with frame c is a call on a node capability:
\* peer_id/version/repo, stop, is_started, upload, download, connect, debug.
NodeCallPending(c) ==
  c.pc \in {"u_query", "d_stop", "up_is_started", "up_transfer", "dl_is_started",
            "dl_transfer", "cp_node_call", "na_node_call"}

\* The call with frame c holds the write guard of network_info (line 540 to
\* the end of update_network_info); no other lock is held across a step.
HoldsNetworkGuard(c) == net_writer /\ c.pc \in {"u_query", "u_max_peers"}

\* C15: no call holds a lock of the manager while it calls a node capability,
\* so no reader (get_network_info, line 347) has to wait for a node call of a
\* connect, disconnect or transfer in flight.
C15_NoLockAcrossNodeCall ==
  \A c \in InFlight : NodeCallPending(c) => ~HoldsNetworkGuard(c)
\* The connect with frame c is inside update_network_info (line 292).
InRefresh(c) ==
  c.kind = "connect" /\ c.pc \in {"u_clone", "u_lock", "u_query", "u_max_peers"}

\* C16: once creation and start have succeeded, connect returns Ok and its
\* snapshot refresh leaves the status register alone, also when the refresh
\* fails: a refresh failure is never returned as connect's error.
C16_RefreshFailureAbsorbed ==
  [][\A c \in InLifecycle :
       (InRefresh(c) /\ Moves(c)) =>
         /\ get_status' = get_status
         /\ Returns(c) => last_return'.result = "Ok"]_vars
\* A connect returns in this step: at once with NodeCreation or NodeStart, or
\* from its frame.
ConnectReturns ==
  \/ ConnectCalled /\ frames' = frames
  \/ \E c \in InLifecycle : c.kind = "connect" /\ Returns(c)

\* C17: every change of the status register is one of Disconnected to
\* Connecting, Connecting to Connected, Connecting to Error, Connected to
\* Disconnected, Error to Connecting; and the status is not Connecting when a
\* connect has just returned.
C17_StatusFollowsMachine ==
  [][/\ status' # status =>
          <<status, status'>> \in
            {<<"Disconnected", "Connecting">>, <<"Connecting", "Connected">>,
             <<"Connecting", "Error">>, <<"Connected", "Disconnected">>,
             <<"Error", "Connecting">>}
     /\ ConnectReturns => status' # "Connecting"]_vars
\* C18: every caller of get_codex_manager_with_handle, also when several
\* first calls race, receives the one instance in the cell, and none receives
\* an initialization error.
C18_OneManagerForAll ==
  \A t \in Tasks :
    getters[t].pc = "done" =>
      /\ getters[t].result = "Ok"
      /\ getters[t].manager = CODEX_MANAGER
\* C19: disconnect returns Ok whether or not the node's stop call failed, no
\* step of it changes max_peers or the storage snapshot, and when it returns
\* with no other call in flight the slot is empty, the live fields of the
\* network snapshot are cleared and the error register is empty.
C19_DisconnectClearsEverything ==
  [][\A c \in InLifecycle :
       (c.kind = "disconnect" /\ Moves(c)) =>
         /\ get_network_info'.max_peers = get_network_info.max_peers
         /\ get_storage_info' = get_storage_info
         /\ Returns(c) =>
              /\ last_return'.result = "Ok"
              /\ frames' = EmptyBag =>
                   /\ node' = None
                   /\ get_network_info' = ClearedNetworkInfo'
                   /\ get_error' = "None"]_vars
\* The next step of the disconnect with frame c.
DisconnectStep(c) ==
  DisconnectTakeNode(c) \/ DisconnectStopNode(c) \/ DisconnectClear(c)

\* The next step of the transfer with frame c once it has its clone.
TransferStep(c) ==
  \/ UploadValidate(c) \/ UploadNodeCall(c)
  \/ UploadCompletedProgress(c) \/ UploadCleanup(c)
  \/ DownloadValidate(c) \/ DownloadNodeCall(c)
  \/ DownloadCompletedProgress(c) \/ DownloadCleanup(c)

\* The transfer with frame c has cloned the capability out of the slot.
HasClone(c) == c.kind \in {"upload", "download"} /\ c.lnode # None

\* No call waits for another: a disconnect can take its next step whenever
\* the write guard of network_info is free, and a transfer that has its
\* clone can always take its next step.
NoWaiting ==
  /\ \A c \in InLifecycle :
       (c.kind = "disconnect" /\ ~net_writer) => ENABLED DisconnectStep(c)
  /\ \A c \in InTransfer : HasClone(c) => ENABLED TransferStep(c)

\* C20: a disconnect issued while a transfer runs on its clone does not wait
\* for the transfer and cancels nothing of it (its frame, its registry entry,
\* its channel and its callback tasks are left alone); the transfer goes on,
\* and once its node call has succeeded it queues Completed on its channel,
\* removes its registry entry and returns Ok, whatever the status is by then.
C20_DisconnectDoesNotCancelTransfer ==
  /\ []NoWaiting
  /\ [][/\ \A c \in InLifecycle :
            (c.kind = "disconnect" /\ Moves(c)) =>
              /\ InTransfer' = InTransfer
              /\ progress_senders' = progress_senders
              /\ channel' = channel
              /\ tasks' = tasks
        /\ \A c \in InTransfer :
            /\ (Moves(c) /\ c.pc \in {"up_completed", "dl_completed"}) =>
                 channel'[c.operation_id][Len(channel'[c.operation_id])].stage
                   = "Completed"
            /\ (Moves(c) /\ c.pc \in {"up_cleanup", "dl_cleanup"}) =>
                 /\ Returns(c)
                 /\ last_return'.result = "Ok"
                 /\ c.operation_id \notin progress_senders']_vars

\* C20's case: an upload cloned the capability and passed its checks, a
\* disconnect then ran to its end and stopped the node, and the upload
\* afterwards queued Completed, removed its entry and returned Ok with the
\* status Disconnected and the slot empty.
C20_Witness ==
  /\ last_return.kind = "upload"
  /\ last_return.result = "Ok"
  /\ status = "Disconnected"
  /\ node = None
  /\ caps[1] = "stopped"
  /\ frames = EmptyBag
  /\ "Completed" \in Stages(last_return.operation_id)
  /\ last_return.operation_id \notin progress_senders
\* The transfers among the methods.
Transfers == {"upload", "download"}

\* Thread t is in a call on a capability (or a check between two locks).
InNodeCall(t) == Busy(t) /\ NextOp(t).op = "node"

\* Thread t is in upload_file (line 421) or download_stream (line 504): the
\* node call that follows the second send_progress of a transfer.
AtTransferCall(t) ==
  /\ running[t].method \in Transfers
  /\ InNodeCall(t)
  /\ Program(running[t].method)[running[t].at - 1].lock = "progress_senders"

\* Thread t waits for (or is about to be granted) a guard on lock l.
AwaitsLock(t, l) ==
  Busy(t) /\ NextOp(t).op = "acquire" /\ NextOp(t).lock = l

\* C21: a transfer holds the guard of the node slot only inside the block
\* that clones the capability, so not during any of its node calls; and
\* while a transfer is in its upload or download call, a disconnect that
\* asks for the slot is granted it at once.
C21_SlotFreeDuringTransfer ==
  \A t \in Threads :
    running[t].method \in Transfers =>
      /\ "node" \in Held(t) => NextOp(t) = Release("node", TRUE)
      /\ InNodeCall(t) => "node" \notin Held(t)
      /\ AtTransferCall(t) =>
           \A u \in Threads \ {t} :
             (running[u].method = "disconnect" /\ AwaitsLock(u, "node")) =>
               ENABLED AcquireStep(u)

\* C21's case: an upload is in upload_file while a disconnect holds the
\* guard of the slot.
C21_Witness ==
  \E t \in Threads, u \in Threads :
    /\ running[t].method = "upload"
    /\ AtTransferCall(t)
    /\ running[u].method = "disconnect"
    /\ "node" \in Held(u)
\* The connect with frame c is about to query the node for the snapshot.
AtQuery(c) == c.kind = "connect" /\ c.pc = "u_query"

\* Every combination of answers and failures of the three queries can be
\* what the refresh writes.
QueriesIndependent ==
  \A c \in InLifecycle :
    AtQuery(c) =>
      \A pid \in QueryOk, ver \in QueryOk, repo \in QueryOk :
        ENABLED (/\ UpdateQueryNode(c)
                 /\ network_info'.peer_id = pid
                 /\ network_info'.version = ver
                 /\ network_info'.repo_path = repo)

\* C22: with a capability cloned, the refresh sets each of peer_id, version
\* and repo_path to the node's answer or to absent, each on its own query
\* and whatever the other two give; it then sets max_peers to the configured
\* value, changes nothing else of the snapshot, and returns Ok, whichever of
\* the three fields are absent.
C22_FieldsRefreshedIndependently ==
  /\ []QueriesIndependent
  /\ [][\A c \in InLifecycle :
          /\ (AtQuery(c) /\ Moves(c)) =>
               /\ network_info'.peer_id \in QueryOk
               /\ network_info'.version \in QueryOk
               /\ network_info'.repo_path \in QueryOk
               /\ network_info'.max_peers = network_info.max_peers
               /\ network_info'.connected_peers = network_info.connected_peers
               /\ ~Returns(c)
          /\ (c.kind = "connect" /\ c.pc = "u_max_peers" /\ Moves(c)) =>
               /\ network_info' =
                    [network_info EXCEPT !.max_peers = DefaultMaxPeers]
               /\ Returns(c)
               /\ last_return'.result = "Ok"]_vars

\* C22's case: a refresh in which the first query failed and the other two
\* answered has returned Ok.
C22_Witness ==
  /\ last_return.kind = "connect"
  /\ last_return.result = "Ok"
  /\ frames = EmptyBag
  /\ get_network_info.peer_id = "None"
  /\ get_network_info.version = "Some"
  /\ get_network_info.repo_path = "Some"
  /\ get_network_info.max_peers = DefaultMaxPeers
\* A thread that asks for a guard holds none.
NoNestedWait ==
  \A t \in Threads : (Busy(t) /\ NextOp(t).op = "acquire") => Held(t) = {}

\* C23: no method asks for one of the manager's locks while it holds a guard
\* on another, and with every node call returning, every method a thread is
\* in returns in the end, whatever the other threads do.
C23_NoDeadlock ==
  /\ []NoNestedWait
  /\ \A t \in Threads : Busy(t) ~> ~Busy(t)

\* C23's case: a thread waits for the guard of network_info while another
\* holds it inside a node call.
C23_Witness ==
  \E t \in Threads, u \in Threads :
    /\ AwaitsLock(t, "network_info")
    /\ ~Grantable("network_info", NextOp(t).mode)
    /\ InNodeCall(u)
    /\ "network_info" \in Held(u)
\* C24: whenever no call is in flight and the status is Disconnected, the
\* snapshot's peer_id, version and repo_path are absent, also after a
\* disconnect that ran while a connect's refresh held its clone.
C24_DisconnectedSnapshotIsCleared ==
  (Quiescent /\ get_status = "Disconnected") =>
    /\ get_network_info.peer_id = "None"
    /\ get_network_info.version = "None"
    /\ get_network_info.repo_path = "None"
\* C25: connect's store (line 283) never replaces a started capability in
\* the slot, so that every started capability is either the one in the slot
\* or one a disconnect took out of it to call stop on.
C25_ConnectNeverOverwritesStarted ==
  [][\A c \in InLifecycle :
       (c.kind = "connect" /\ c.pc = "c_store" /\ Moves(c)) =>
         (node = None \/ caps[node] # "started")]_vars
====
